---- MODULE Spec2Model ----
(***************************************************************************)
(* Model of the aggregation engine of prometheus-gravel-gateway            *)
(* (src/src/aggregator.rs): clear-mode resolution, value and bucket        *)
(* merging, AggregationFamily::merge, and the Aggregator's lock-guarded    *)
(* parse_and_merge / to_string.                                            *)
(*                                                                         *)
(* Data representation                                                     *)
(*   family  [family_name, family_type, label_names, metrics]              *)
(*           label_names : sequence of label names (the family's schema)   *)
(*           metrics     : sequence of samples                             *)
(*   sample  [label_values, value]   label_values positional to the schema *)
(*   value   [tag, num]                               Unknown, Gauge       *)
(*           [tag, num, exemplar]                     Counter              *)
(*           [tag, sum, count, created, buckets]      Histogram            *)
(*           [tag]                                    Summary              *)
(*   Option<T> is a sequence of length 0 (None) or 1 (Some).               *)
(*   bucket  [upper_bound, count, exemplar]                                *)
(* Numbers are naturals; f64 rounding is outside the model.                *)
(***************************************************************************)
EXTENDS Integers, Sequences, FiniteSets, TLC

\* aggregator.rs:6
CLEARMODE_LABEL_NAME == "clearmode"

None == <<>>
Some(x) == <<x>>

(* ClearMode *)

\* default_for_type with the Gauge arm lost: every type aggregates
default_for_type_AllAggregate(t) == "Aggregate"

\* ClearMode::default_for_type
default_for_type(t) ==
    IF t = "Gauge" THEN "Replace" ELSE "Aggregate"

\* FromStr for ClearMode: Ok(mode) or Err
from_str(s) ==
    CASE s = "aggregate" -> [ok |-> TRUE, val |-> "Aggregate"]
      [] s = "replace"   -> [ok |-> TRUE, val |-> "Replace"]
      [] s = "family"    -> [ok |-> TRUE, val |-> "Family"]
      [] OTHER           -> [ok |-> FALSE, val |-> "Invalid clearmode"]

\* position of a label name in a schema, 0 when absent
LabelPosition(names, label) ==
    IF \E k \in 1..Len(names) : names[k] = label
    THEN CHOOSE k \in 1..Len(names) :
            names[k] = label /\ \A m \in 1..(k-1) : names[m] # label
    ELSE 0

\* LabelSet::get_label_value: Some(value) or None
get_label_value(names, metric, label) ==
    LET k == LabelPosition(names, label)
    IN IF k = 0 THEN None ELSE Some(metric.label_values[k])

\* ClearMode::from_family; names is the schema the sample is bound to
from_family(family_type, names, metric) ==
    LET c == get_label_value(names, metric, CLEARMODE_LABEL_NAME)
    IN IF c # None
       THEN LET r == from_str(c[1])
            IN IF r.ok THEN r.val ELSE default_for_type(family_type)
       ELSE default_for_type(family_type)

(* Bucket merger *)

RemoveAt(s, k) == [m \in 1..(Len(s)-1) |-> IF m < k THEN s[m] ELSE s[m+1]]

RECURSIVE MergeLoop(_, _, _, _, _)
\* the while loop of merge_buckets; i, j are 1-based here
MergeLoop(val1, val2, i, j, output) ==
    IF i <= Len(val1) /\ j <= Len(val2)
    THEN LET bucket1 == val1[i]
             bucket2 == val2[j]
         IN IF bucket1.upper_bound < bucket2.upper_bound
            THEN MergeLoop(val1, val2, i+1, j, Append(output, bucket1))
            ELSE IF bucket1.upper_bound > bucket2.upper_bound
            THEN MergeLoop(val1, val2, i, j+1, Append(output, bucket2))
            ELSE MergeLoop(val1, val2, i+1, j+1,
                    Append(output, [count |-> bucket1.count + bucket2.count,
                                    upper_bound |-> bucket1.upper_bound,
                                    exemplar |-> bucket2.exemplar]))
    ELSE [i |-> i, j |-> j, output |-> output]

\* first tail loop: for i in i..val1.len() { output.push(val1[i]) }
TailOfFirst(val1, i) == SubSeq(val1, i, Len(val1))

\* second tail loop as written: for j in j..val2.len() { output.push(val1[j]) }
\* The index runs over val2's remainder but reads val1; an index past the
\* end of val1 is an out-of-bounds panic.
TailOfSecond(val1, val2, j) ==
    IF \E k \in j..Len(val2) : k > Len(val1)
    THEN [panic |-> TRUE, items |-> <<>>]
    ELSE [panic |-> FALSE, items |-> SubSeq(val1, j, Len(val2))]

\* merge_buckets that keeps the second list instead of summing equal bounds
merge_buckets_KeepsSecond(val1, val2) == [panic |-> FALSE, out |-> val2]

\* merge_buckets: [panic, out]
merge_buckets(val1, val2) ==
    LET l  == MergeLoop(val1, val2, 1, 1, <<>>)
        t2 == TailOfSecond(val1, val2, l.j)
    IN IF t2.panic
       THEN [panic |-> TRUE, out |-> <<>>]
       ELSE [panic |-> FALSE,
             out |-> l.output \o TailOfFirst(val1, l.i) \o t2.items]

(* Value merger *)

\* Option arithmetic in which Replace takes the incoming value whatever the
\* stored one is
MergeOption_ReplaceTakesIncoming(a, b, clear_mode) ==
    IF a # None /\ b # None /\ clear_mode = "Aggregate" THEN Some(a[1] + b[1])
    ELSE IF clear_mode = "Replace" THEN b
    ELSE None

\* Option arithmetic of the Histogram arm (sum and count)
MergeOption(a, b, clear_mode) ==
    IF a # None /\ b # None /\ clear_mode = "Aggregate" THEN Some(a[1] + b[1])
    ELSE IF a # None /\ b # None /\ clear_mode = "Replace" THEN Some(b[1])
    ELSE None

\* merge_metric: the value assigned to into.value, or a panic and why:
\* "panic_mode"  unreachable!() on a clear mode other than Aggregate, Replace
\* "panic_todo"  todo!() on two Summary values
\* "panic_tags"  unreachable!() on values of differing tags
\* "panic_index" the index panic inside merge_buckets
merge_metric(into_value, merge_value, clear_mode) ==
    LET val1 == into_value
        val2 == merge_value
        Panic(why) == [panic |-> TRUE, why |-> why, val |-> into_value]
    IN CASE val1.tag = "Unknown" /\ val2.tag = "Unknown" ->
              IF clear_mode = "Aggregate"
              THEN [panic |-> FALSE, why |-> "",
                    val |-> [tag |-> "Unknown", num |-> val1.num + val2.num]]
              ELSE IF clear_mode = "Replace"
              THEN [panic |-> FALSE, why |-> "",
                    val |-> [tag |-> "Unknown", num |-> val2.num]]
              ELSE Panic("panic_mode")
         [] val1.tag = "Gauge" /\ val2.tag = "Gauge" ->
              IF clear_mode = "Aggregate"
              THEN [panic |-> FALSE, why |-> "",
                    val |-> [tag |-> "Gauge", num |-> val1.num + val2.num]]
              ELSE IF clear_mode = "Replace"
              THEN [panic |-> FALSE, why |-> "",
                    val |-> [tag |-> "Gauge", num |-> val2.num]]
              ELSE Panic("panic_mode")
         [] val1.tag = "Counter" /\ val2.tag = "Counter" ->
              IF clear_mode = "Aggregate"
              THEN [panic |-> FALSE, why |-> "",
                    val |-> [tag |-> "Counter", num |-> val1.num + val2.num,
                             exemplar |-> val2.exemplar]]
              ELSE IF clear_mode = "Replace"
              THEN [panic |-> FALSE, why |-> "",
                    val |-> [tag |-> "Counter", num |-> val2.num,
                             exemplar |-> val2.exemplar]]
              ELSE Panic("panic_mode")
         [] val1.tag = "Histogram" /\ val2.tag = "Histogram" ->
              LET sum   == MergeOption(val1.sum, val2.sum, clear_mode)
                  count == MergeOption(val1.count, val2.count, clear_mode)
                  b     == IF clear_mode = "Aggregate"
                           THEN merge_buckets(val1.buckets, val2.buckets)
                           ELSE IF clear_mode = "Replace"
                           THEN [panic |-> FALSE, out |-> val2.buckets]
                           ELSE [panic |-> TRUE, out |-> <<>>]
              IN IF b.panic
                 THEN Panic(IF clear_mode = "Aggregate"
                            THEN "panic_index" ELSE "panic_mode")
                 ELSE [panic |-> FALSE, why |-> "",
                       val |-> [tag |-> "Histogram", sum |-> sum, count |-> count,
                                created |-> val2.created, buckets |-> b.out]]
         [] val1.tag = "Summary" /\ val2.tag = "Summary" -> Panic("panic_todo")
         [] OTHER -> Panic("panic_tags")

(* The metric-family container of the openmetrics_parser crate, as the     *)
(* aggregator uses it.  A family carries one ordered list of label names;  *)
(* each sample carries its label values in that order, and samples are     *)
(* compared by their label values.                                         *)

\* MetricFamily::get_sample_matches_mut: index of the first sample whose
\* label values equal the given ones, 0 for None
get_sample_matches(family, label_values) ==
    IF \E k \in 1..Len(family.metrics) :
           family.metrics[k].label_values = label_values
    THEN CHOOSE k \in 1..Len(family.metrics) :
           /\ family.metrics[k].label_values = label_values
           /\ \A m \in 1..(k-1) : family.metrics[m].label_values # label_values
    ELSE 0

\* MetricFamily::add_sample: rejects a sample whose number of label values
\* differs from the family's number of label names, and a duplicate of a
\* stored sample's label values; otherwise binds the sample to the family's
\* label names and appends it
add_sample(family, s) ==
    IF Len(s.label_values) # Len(family.label_names)
    THEN [ok |-> FALSE, val |-> family]
    ELSE IF get_sample_matches(family, s.label_values) # 0
    THEN [ok |-> FALSE, val |-> family]
    ELSE [ok |-> TRUE,
          val |-> [family EXCEPT !.metrics = Append(@, s)]]

\* Sample::without_label: the sample less one label, Err when it has no such label
sample_without_label(names, metric, label) ==
    LET k == LabelPosition(names, label)
    IN IF k = 0
       THEN [ok |-> FALSE, val |-> metric]
       ELSE [ok |-> TRUE,
             val |-> [metric EXCEPT !.label_values = RemoveAt(@, k)]]

RECURSIVE AddAllWithout(_, _, _, _)
\* the loop of MetricFamily::without_label: re-adds every sample, less the
\* label at position k, to the emptied family
AddAllWithout(base, metrics, k, i) ==
    IF i > Len(metrics)
    THEN [ok |-> TRUE, val |-> base]
    ELSE LET r == add_sample(base,
                     [metrics[i] EXCEPT !.label_values = RemoveAt(@, k)])
         IN IF r.ok THEN AddAllWithout(r.val, metrics, k, i+1)
            ELSE [ok |-> FALSE, val |-> base]

\* MetricFamily::without_label: Err when the family has no such label, or
\* when two samples differ in that label only (the second add is a duplicate)
family_without_label(family, label) ==
    LET k == LabelPosition(family.label_names, label)
    IN IF k = 0
       THEN [ok |-> FALSE, val |-> family]
       ELSE AddAllWithout([family EXCEPT !.label_names = RemoveAt(@, k),
                                         !.metrics = <<>>],
                          family.metrics, k, 1)

\* Result::unwrap_or
unwrap_or(r, default) == IF r.ok THEN r.val ELSE default

(* AggregationFamily *)

\* AggregationFamily::new
AggregationFamily_new(base_family) ==
    unwrap_or(family_without_label(base_family, CLEARMODE_LABEL_NAME), base_family)

\* the clear mode of the first incoming sample alone decides
should_clear_family_FirstOnly(new_family) ==
    /\ new_family.metrics # <<>>
    /\ from_family(new_family.family_type, new_family.label_names,
                   new_family.metrics[1]) = "Family"

\* any(|metric| from_family(..) == Family) over the incoming samples
should_clear_family(new_family) ==
    \E k \in 1..Len(new_family.metrics) :
        from_family(new_family.family_type, new_family.label_names,
                    new_family.metrics[k]) = "Family"

RECURSIVE MergeSamples(_, _, _)
\* the per-sample loop of AggregationFamily::merge, from incoming sample i on:
\* [res, fam] with res "ok", "err_add" (add_sample failed) or the panic of
\* merge_metric
MergeSamples(base_family, new_family, i) ==
    IF i > Len(new_family.metrics)
    THEN [res |-> "ok", fam |-> base_family]
    ELSE LET metric     == new_family.metrics[i]
             cmp_metric == unwrap_or(sample_without_label(new_family.label_names,
                                         metric, CLEARMODE_LABEL_NAME), metric)
             k          == get_sample_matches(base_family, cmp_metric.label_values)
         IN IF k = 0
            THEN LET a == add_sample(base_family, metric)
                 IN IF a.ok THEN MergeSamples(a.val, new_family, i+1)
                    ELSE [res |-> "err_add", fam |-> base_family]
            ELSE LET clear_mode == from_family(base_family.family_type,
                                       new_family.label_names, metric)
                     m == merge_metric(base_family.metrics[k].value,
                                       metric.value, clear_mode)
                 IN IF m.panic
                    THEN [res |-> m.why, fam |-> base_family]
                    ELSE MergeSamples(
                           [base_family EXCEPT !.metrics[k].value = m.val],
                           new_family, i+1)

\* AggregationFamily::merge that adopts the incoming family before it has
\* compared the types
AggregationFamily_merge_ValidatesLate(base_family, new_family) ==
    IF new_family.family_name # base_family.family_name
    THEN [res |-> "err_name", fam |-> base_family]
    ELSE IF new_family.family_type # base_family.family_type
    THEN [res |-> "err_type", fam |-> AggregationFamily_new(new_family)]
    ELSE IF should_clear_family(new_family)
    THEN [res |-> "ok",
          fam |-> unwrap_or(family_without_label(new_family, CLEARMODE_LABEL_NAME),
                            new_family)]
    ELSE MergeSamples(base_family, new_family, 1)

\* AggregationFamily::merge that clears the family before it has compared
\* the types
AggregationFamily_merge_ClearsFirst(base_family, new_family) ==
    IF new_family.family_name # base_family.family_name
    THEN [res |-> "err_name", fam |-> base_family]
    ELSE IF should_clear_family(new_family)
    THEN [res |-> "ok",
          fam |-> unwrap_or(family_without_label(new_family, CLEARMODE_LABEL_NAME),
                            new_family)]
    ELSE IF new_family.family_type # base_family.family_type
    THEN [res |-> "err_type", fam |-> base_family]
    ELSE MergeSamples(base_family, new_family, 1)

\* AggregationFamily::merge: [res, fam], fam the stored family afterwards and
\* res "ok", an Err ("err_name", "err_type", "err_add") or a panic
AggregationFamily_merge(base_family, new_family) ==
    IF new_family.family_name # base_family.family_name
    THEN [res |-> "err_name", fam |-> base_family]
    ELSE IF new_family.family_type # base_family.family_type
    THEN [res |-> "err_type", fam |-> base_family]
    ELSE IF should_clear_family(new_family)
    THEN [res |-> "ok",
          fam |-> unwrap_or(family_without_label(new_family, CLEARMODE_LABEL_NAME),
                            new_family)]
    ELSE MergeSamples(base_family, new_family, 1)

(* Aggregator *)

\* MetricFamily::with_labels for one (name, value) pair: overwrite the label
\* where the family has it, append it otherwise
with_label(family, k, v) ==
    LET pos == LabelPosition(family.label_names, k)
    IN IF pos # 0
       THEN [family EXCEPT !.metrics =
                [m \in 1..Len(@) |-> [@[m] EXCEPT !.label_values[pos] = v]]]
       ELSE [family EXCEPT !.label_names = Append(@, k),
                           !.metrics =
                [m \in 1..Len(@) |->
                    [@[m] EXCEPT !.label_values = Append(@, v)]]]

RECURSIVE with_labels(_, _)
\* extra_labels is a sequence of <<name, value>> pairs
with_labels(family, extra_labels) ==
    IF extra_labels = <<>>
    THEN family
    ELSE with_labels(with_label(family, Head(extra_labels)[1], Head(extra_labels)[2]),
                     Tail(extra_labels))

\* add_extra_labels: an exposition is a function from family name to family
add_extra_labels(exposition, extra_labels) ==
    [name \in DOMAIN exposition |-> with_labels(exposition[name], extra_labels)]

\* one iteration that inserts the incoming family whether or not the name is
\* already stored
merge_one_AlwaysInserts(fams, name, metrics) ==
    [res |-> "ok",
     families |-> [n \in DOMAIN fams \cup {name} |->
                     IF n = name THEN AggregationFamily_new(metrics)
                     ELSE fams[n]]]

\* one iteration of the loop of parse_and_merge over (name, metrics):
\* [res, families]
merge_one(fams, name, metrics) ==
    IF name \in DOMAIN fams
    THEN LET r == AggregationFamily_merge(fams[name], metrics)
         IN [res |-> r.res, families |-> [fams EXCEPT ![name] = r.fam]]
    ELSE [res |-> "ok",
          families |-> [n \in DOMAIN fams \cup {name} |->
                          IF n = name THEN AggregationFamily_new(metrics)
                          ELSE fams[n]]]

(* State *)

NumProcs == 2
MaxCalls == 3

Procs == 1..NumProcs
NoProc == 0

VARIABLES
    families,   \* Aggregator.families: family name -> stored family
    writer,     \* the task holding the RwLock write guard, or NoProc
    readers,    \* the tasks holding a read guard
    pc,         \* per task: "idle" | "w_wait" | "w_hold" | "r_wait" | "r_hold"
    batch,      \* per task: metrics.families of the call in progress
    todo,       \* per task: the names of batch the loop has not iterated yet
    result,     \* per task: how its last call ended
    snapshot,   \* per task: what its last to_string returned
    calls,      \* number of calls made so far
    pre,        \* history: the families when the write guard was taken
    committed,  \* history: the families when the write guard was last dropped
    partial,    \* history: a call has ended leaving its batch merged in part
    last,       \* history: the last parse_and_merge that held the guard
    scenario,   \* what a scripted caller pushes (fixed from the start)
    pushed,     \* history: what the scripted caller has pushed so far
    arg1, arg2, out  \* inputs and output of a function applied on its own

vars == <<families, writer, readers, pc, batch, todo, result, snapshot, calls,
          pre, committed, partial, last, scenario, pushed, arg1, arg2, out>>

EmptyMap == [n \in {} |-> 0]

NoCall == [res |-> "none", name |-> "", merged |-> {}, pre |-> EmptyMap,
           batch |-> EmptyMap, after |-> EmptyMap]

InitAggregator ==
    /\ families = EmptyMap
    /\ writer = NoProc
    /\ readers = {}
    /\ pc = [p \in Procs |-> "idle"]
    /\ batch = [p \in Procs |-> EmptyMap]
    /\ todo = [p \in Procs |-> {}]
    /\ result = [p \in Procs |-> "none"]
    /\ snapshot = [p \in Procs |-> EmptyMap]
    /\ calls = 0
    /\ pre = EmptyMap
    /\ committed = EmptyMap
    /\ partial = FALSE
    /\ last = NoCall

(* parse_and_merge *)

\* the text parses: line 251, up to the point of waiting for the write guard
Ingest_Call(p, exposition, extra_labels) ==
    /\ pc[p] = "idle"
    /\ calls < MaxCalls
    /\ calls' = calls + 1
    /\ pc' = [pc EXCEPT ![p] = "w_wait"]
    /\ batch' = [batch EXCEPT ![p] = add_extra_labels(exposition, extra_labels)]
    /\ todo' = [todo EXCEPT ![p] = DOMAIN exposition]
    /\ result' = [result EXCEPT ![p] = "none"]
    /\ UNCHANGED <<families, writer, readers, snapshot, pre, committed, partial, last>>

\* the text does not parse: `?` on line 251 returns before the lock is touched
Ingest_ParseError(p) ==
    /\ pc[p] = "idle"
    /\ calls < MaxCalls
    /\ calls' = calls + 1
    /\ result' = [result EXCEPT ![p] = "err_parse"]
    /\ UNCHANGED <<families, writer, readers, pc, batch, todo, snapshot, pre,
                   committed, partial, last>>

\* a write guard granted while renders hold read guards
CanWrite_IgnoresReaders == writer = NoProc

\* tokio RwLock::write: granted when no writer and no reader holds the lock
CanWrite == writer = NoProc /\ readers = {}

\* line 252
Ingest_Lock(p) ==
    /\ pc[p] = "w_wait"
    /\ CanWrite
    /\ writer' = p
    /\ pc' = [pc EXCEPT ![p] = "w_hold"]
    /\ pre' = families
    /\ UNCHANGED <<families, readers, batch, todo, result, snapshot, calls,
                   committed, partial, last>>

\* one iteration whose Err or panic leaves the function with the guard kept
Ingest_Family_KeepsLockOnErr(p, name) ==
    /\ pc[p] = "w_hold"
    /\ name \in todo[p]
    /\ LET r == merge_one(families, name, batch[p][name])
       IN /\ families' = r.families
          /\ IF r.res = "ok"
             THEN /\ todo' = [todo EXCEPT ![p] = @ \ {name}]
                  /\ UNCHANGED <<writer, pc, result, committed, partial, last>>
             ELSE /\ todo' = [todo EXCEPT ![p] = {}]
                  /\ writer' = writer
                  /\ pc' = [pc EXCEPT ![p] = "idle"]
                  /\ result' = [result EXCEPT ![p] = r.res]
                  /\ committed' = r.families
                  /\ partial' = (partial \/ r.families # pre)
                  /\ last' = [res |-> r.res, name |-> name,
                              merged |-> DOMAIN batch[p] \ todo[p],
                              pre |-> pre, batch |-> batch[p],
                              after |-> r.families]
    /\ UNCHANGED <<readers, batch, snapshot, calls, pre>>

\* lines 254-265: one iteration, over any family not yet iterated (HashMap
\* order); an Err (`?`) or a panic leaves the function and drops the guard
Ingest_Family(p, name) ==
    /\ pc[p] = "w_hold"
    /\ name \in todo[p]
    /\ LET r == merge_one(families, name, batch[p][name])
       IN /\ families' = r.families
          /\ IF r.res = "ok"
             THEN /\ todo' = [todo EXCEPT ![p] = @ \ {name}]
                  /\ UNCHANGED <<writer, pc, result, committed, partial, last>>
             ELSE /\ todo' = [todo EXCEPT ![p] = {}]
                  /\ writer' = NoProc
                  /\ pc' = [pc EXCEPT ![p] = "idle"]
                  /\ result' = [result EXCEPT ![p] = r.res]
                  /\ committed' = r.families
                  /\ partial' = (partial \/ r.families # pre)
                  /\ last' = [res |-> r.res, name |-> name,
                              merged |-> DOMAIN batch[p] \ todo[p],
                              pre |-> pre, batch |-> batch[p],
                              after |-> r.families]
    /\ UNCHANGED <<readers, batch, snapshot, calls, pre>>

\* line 267: the loop is over, Ok(()) and the guard is dropped
Ingest_Return(p) ==
    /\ pc[p] = "w_hold"
    /\ todo[p] = {}
    /\ writer' = NoProc
    /\ pc' = [pc EXCEPT ![p] = "idle"]
    /\ result' = [result EXCEPT ![p] = "ok"]
    /\ committed' = families
    /\ last' = [res |-> "ok", name |-> "", merged |-> DOMAIN batch[p],
                pre |-> pre, batch |-> batch[p], after |-> families]
    /\ UNCHANGED <<families, readers, batch, todo, snapshot, calls, pre, partial>>

(* to_string *)

Render_Call(p) ==
    /\ pc[p] = "idle"
    /\ calls < MaxCalls
    /\ calls' = calls + 1
    /\ pc' = [pc EXCEPT ![p] = "r_wait"]
    /\ result' = [result EXCEPT ![p] = "none"]
    /\ UNCHANGED <<families, writer, readers, batch, todo, snapshot, pre,
                   committed, partial, last>>

\* a read guard granted whether or not a writer holds the lock
CanRead_IgnoresWriter == TRUE

\* tokio RwLock::read: granted when no writer holds the lock
CanRead == writer = NoProc

\* line 273
Render_Lock(p) ==
    /\ pc[p] = "r_wait"
    /\ CanRead
    /\ readers' = readers \cup {p}
    /\ pc' = [pc EXCEPT ![p] = "r_hold"]
    /\ UNCHANGED <<families, writer, batch, todo, result, snapshot, calls, pre,
                   committed, partial, last>>

\* lines 274-279: every stored family rendered; the guard is dropped
Render_Return(p) ==
    /\ pc[p] = "r_hold"
    /\ snapshot' = [snapshot EXCEPT ![p] = families]
    /\ readers' = readers \ {p}
    /\ pc' = [pc EXCEPT ![p] = "idle"]
    /\ result' = [result EXCEPT ![p] = "rendered"]
    /\ UNCHANGED <<families, writer, batch, todo, calls, pre, committed, partial, last>>

(* Inputs *)

FamilyNames == {"foo", "bar"}

MetricFamily(name, type, names, metrics) ==
    [family_name |-> name, family_type |-> type, label_names |-> names,
     metrics |-> metrics]

Sample(label_values, value) == [label_values |-> label_values, value |-> value]

\* a parsed value of a scalar family
ScalarValue(type, n) ==
    IF type = "Counter"
    THEN [tag |-> "Counter", num |-> n, exemplar |-> None]
    ELSE [tag |-> type, num |-> n]

\* the expositions whose families are drawn from F(name)
ExpositionsOf(names, F(_)) ==
    UNION {{e \in [D -> UNION {F(n) : n \in D}] :
               \A n \in D : e[n].family_name = n} :
           D \in (SUBSET names) \ {{}}}

\* URL-derived labels the transport passes in
ExtraLabelSets == {<<>>, << <<"job", "j">> >>}

\* unlabelled single-sample Gauge and Counter families
PlainFamilies(name) ==
    {MetricFamily(name, t, <<>>, <<Sample(<<>>, ScalarValue(t, 1))>>) :
        t \in {"Gauge", "Counter"}}

PlainExpositions == ExpositionsOf(FamilyNames, PlainFamilies)

(* Concurrent callers over plain families *)

others == <<scenario, pushed, arg1, arg2, out>>

NoScenario == [type |-> "none"]
NoPushes == [n |-> 0]
NotApplied == [done |-> FALSE]

Init ==
    /\ InitAggregator
    /\ scenario = NoScenario
    /\ pushed = NoPushes
    /\ arg1 = <<>>
    /\ arg2 = <<>>
    /\ out = NotApplied

Next ==
    \/ \E p \in Procs, e \in PlainExpositions :
          Ingest_Call(p, e, <<>>) /\ UNCHANGED others
    \/ \E p \in Procs : Ingest_ParseError(p) /\ UNCHANGED others
    \/ \E p \in Procs : Ingest_Lock(p) /\ UNCHANGED others
    \/ \E p \in Procs, n \in FamilyNames :
          Ingest_Family(p, n) /\ UNCHANGED others
    \/ \E p \in Procs : Ingest_Return(p) /\ UNCHANGED others
    \/ \E p \in Procs : Render_Call(p) /\ UNCHANGED others
    \/ \E p \in Procs : Render_Lock(p) /\ UNCHANGED others
    \/ \E p \in Procs : Render_Return(p) /\ UNCHANGED others

Spec == Init /\ [][Next]_vars

(* One caller over labelled families *)

\* the label values pushed under each schema, in the order of their lines
LabelValueLists(names) ==
    CASE names = <<>> -> << <<>> >>
      [] names = <<"a">> -> << <<"x">>, <<"y">> >>
      [] names = <<"clearmode">> -> << <<"family">>, <<"replace">> >>
      [] names = <<"a", "clearmode">> ->
            << <<"x", "family">>, <<"x", "replace">>,
               <<"y", "family">>, <<"y", "replace">> >>

LabelSchemas == {<<>>, <<"a">>, <<"clearmode">>, <<"a", "clearmode">>}

\* one or two samples of distinct label values, all of value v
SampleLists(names, type, v) ==
    LET lvs == LabelValueLists(names)
    IN {<<Sample(lvs[k], ScalarValue(type, v))>> : k \in 1..Len(lvs)}
       \cup {<<Sample(lvs[k[1]], ScalarValue(type, v)),
               Sample(lvs[k[2]], ScalarValue(type, v))>> :
               k \in {kk \in (1..Len(lvs)) \X (1..Len(lvs)) : kk[1] < kk[2]}}

LabelledFamilies(name, v) ==
    UNION {{MetricFamily(name, t, names, ms) : ms \in SampleLists(names, t, v)} :
            t \in {"Gauge", "Counter"}, names \in LabelSchemas}

\* the k-th call pushes the value k
LabelledExpositions(v) ==
    LET F(n) == LabelledFamilies(n, v) IN ExpositionsOf({"foo"}, F)

\* the one task that calls in the single-caller specifications
Caller == CHOOSE p \in Procs : \A q \in Procs : p <= q

NextSeq ==
    \/ \E e \in LabelledExpositions(calls + 1) :
          Ingest_Call(Caller, e, <<>>) /\ UNCHANGED others
    \/ Ingest_ParseError(Caller) /\ UNCHANGED others
    \/ Ingest_Lock(Caller) /\ UNCHANGED others
    \/ \E n \in FamilyNames :
          Ingest_Family(Caller, n) /\ UNCHANGED others
    \/ Ingest_Return(Caller) /\ UNCHANGED others
    \/ Render_Call(Caller) /\ UNCHANGED others
    \/ Render_Lock(Caller) /\ UNCHANGED others
    \/ Render_Return(Caller) /\ UNCHANGED others

SpecSeq == Init /\ [][NextSeq]_vars

(* merge_buckets applied on its own to sorted bucket lists *)

MaxBound == 3
MaxCount == 2

\* the ascending sequence of the elements of a set of numbers
RECURSIVE Ascending(_)
Ascending(S) ==
    IF S = {} THEN <<>>
    ELSE LET m == CHOOSE x \in S : \A y \in S : x <= y
         IN <<m>> \o Ascending(S \ {m})

\* bucket lists of strictly ascending upper bounds
SortedBucketLists ==
    UNION {{[k \in 1..Len(Ascending(B)) |->
                [upper_bound |-> Ascending(B)[k], count |-> c[Ascending(B)[k]],
                 exemplar |-> None]] :
            c \in [B -> 1..MaxCount]} :
           B \in SUBSET (1..MaxBound)}

InitBuckets ==
    /\ InitAggregator
    /\ scenario = NoScenario
    /\ pushed = NoPushes
    /\ arg1 \in SortedBucketLists
    /\ arg2 \in SortedBucketLists
    /\ out = NotApplied

Apply_merge_buckets ==
    /\ ~out.done
    /\ out' = [done |-> TRUE, r |-> merge_buckets(arg1, arg2)]
    /\ UNCHANGED <<families, writer, readers, pc, batch, todo, result, snapshot,
                   calls, pre, committed, partial, last, scenario, pushed,
                   arg1, arg2>>

NextBuckets == Apply_merge_buckets

SpecBuckets == InitBuckets /\ [][NextBuckets]_vars

(* One caller pushing the same sample again and again *)

MaxVal == 2

\* the bucket bounds a pushed histogram may have
BoundLists == {<<1>>, <<1, 2>>}

PushScenarios ==
    {[type |-> t, bounds |-> <<>>, extra |-> x] :
        t \in {"Gauge", "Counter"}, x \in ExtraLabelSets}
    \cup {[type |-> "Histogram", bounds |-> bl, extra |-> x] :
        bl \in BoundLists, x \in ExtraLabelSets}

\* a parsed histogram of the given bounds and per-bucket counts; its sum
\* is taken to be the total of the counts, its count the last bucket's
HistogramValue(bounds, c) ==
    [tag |-> "Histogram",
     sum |-> Some(IF Len(bounds) = 1 THEN c[1] ELSE c[1] + c[2]),
     count |-> Some(c[Len(bounds)]),
     created |-> None,
     buckets |-> [k \in 1..Len(bounds) |->
                    [upper_bound |-> bounds[k], count |-> c[k], exemplar |-> None]]]

\* the values the scenario's sample may be pushed with
PushValues(sc) ==
    IF sc.type = "Histogram"
    THEN {HistogramValue(sc.bounds, c) : c \in [1..Len(sc.bounds) -> 1..MaxCount]}
    ELSE {ScalarValue(sc.type, v) : v \in 1..MaxVal}

\* the value the neighbouring sample a="y" is pushed with
NeighbourValue(sc) ==
    IF sc.type = "Histogram"
    THEN HistogramValue(sc.bounds, [k \in 1..Len(sc.bounds) |-> 1])
    ELSE ScalarValue(sc.type, 1)

\* family foo with the sample a="x" of the given value, alone or next to a
\* sample a="y"
PushFamilies(sc, value) ==
    {MetricFamily("foo", sc.type, <<"a">>, ms) :
        ms \in {<<Sample(<<"x">>, value)>>,
                <<Sample(<<"x">>, value), Sample(<<"y">>, NeighbourValue(sc))>>,
                <<Sample(<<"y">>, NeighbourValue(sc)), Sample(<<"x">>, value)>>}}

\* the pushes so far: their number, the last value, and the plain sum of
\* the numbers (scalars) or of the counts per bucket position (histograms)
Pushing(p, value) ==
    IF p.n = 0
    THEN [n |-> 1, last |-> value,
          total |-> IF value.tag = "Histogram"
                    THEN [k \in 1..Len(value.buckets) |-> value.buckets[k].count]
                    ELSE value.num]
    ELSE [n |-> p.n + 1, last |-> value,
          total |-> IF value.tag = "Histogram"
                    THEN [k \in 1..Len(value.buckets) |->
                            p.total[k] + value.buckets[k].count]
                    ELSE p.total + value.num]

InitPush ==
    /\ InitAggregator
    /\ scenario \in PushScenarios
    /\ pushed = NoPushes
    /\ arg1 = <<>>
    /\ arg2 = <<>>
    /\ out = NotApplied

NextPush ==
    \/ \E value \in PushValues(scenario) :
         \E f \in PushFamilies(scenario, value) :
            /\ Ingest_Call(Caller, [n \in {"foo"} |-> f], scenario.extra)
            /\ pushed' = Pushing(pushed, value)
            /\ UNCHANGED <<scenario, arg1, arg2, out>>
    \/ Ingest_ParseError(Caller) /\ UNCHANGED others
    \/ Ingest_Lock(Caller) /\ UNCHANGED others
    \/ \E n \in FamilyNames : Ingest_Family(Caller, n) /\ UNCHANGED others
    \/ Ingest_Return(Caller) /\ UNCHANGED others
    \/ Render_Call(Caller) /\ UNCHANGED others
    \/ Render_Lock(Caller) /\ UNCHANGED others
    \/ Render_Return(Caller) /\ UNCHANGED others

SpecPush == InitPush /\ [][NextPush]_vars

(* One caller merging the same batch twice *)

\* every sample of every family of the exposition resolves to Replace
AllReplace(e) ==
    \A n \in DOMAIN e : \A k \in 1..Len(e[n].metrics) :
        from_family(e[n].family_type, e[n].label_names, e[n].metrics[k]) = "Replace"

ReplaceExpositions == {e \in LabelledExpositions(2) : AllReplace(e)}

InitTwice ==
    /\ InitAggregator
    /\ scenario \in {[type |-> "twice", e |-> e] : e \in ReplaceExpositions}
    /\ pushed = NoPushes
    /\ arg1 = <<>>
    /\ arg2 = <<>>
    /\ out = NotApplied

NextTwice ==
    \/ \E e \in LabelledExpositions(1) :
          /\ calls = 0
          /\ Ingest_Call(Caller, e, <<>>)
          /\ UNCHANGED others
    \/ /\ pushed.n < 2
       /\ Ingest_Call(Caller, scenario.e, <<>>)
       /\ pushed' = [n |-> pushed.n + 1,
                     first |-> IF pushed.n = 0 THEN "none" ELSE result[Caller]]
       /\ UNCHANGED <<scenario, arg1, arg2, out>>
    \/ Ingest_Lock(Caller) /\ UNCHANGED others
    \/ \E n \in FamilyNames : Ingest_Family(Caller, n) /\ UNCHANGED others
    \/ Ingest_Return(Caller) /\ UNCHANGED others

SpecTwice == InitTwice /\ [][NextTwice]_vars

(* One caller over unlabelled families of every type *)

PrometheusTypes == {"Counter", "Gauge", "Histogram", "Summary", "Unknown"}

\* a parsed value of each family type; histograms of one or of two buckets
TypedValues(type) ==
    CASE type = "Histogram" -> {HistogramValue(bl, [k \in 1..Len(bl) |-> 1]) :
                                  bl \in BoundLists}
      [] type = "Summary"   -> {[tag |-> "Summary", sum |-> Some(1),
                                 count |-> Some(1)]}
      [] OTHER              -> {ScalarValue(type, 1)}

TypedFamilies(name) ==
    UNION {{MetricFamily(name, t, <<>>, <<Sample(<<>>, v)>>) : v \in TypedValues(t)} :
            t \in PrometheusTypes}

TypedExpositions == ExpositionsOf({"foo"}, TypedFamilies)

NextTypes ==
    \/ \E e \in TypedExpositions :
          Ingest_Call(Caller, e, <<>>) /\ UNCHANGED others
    \/ Ingest_ParseError(Caller) /\ UNCHANGED others
    \/ Ingest_Lock(Caller) /\ UNCHANGED others
    \/ \E n \in FamilyNames : Ingest_Family(Caller, n) /\ UNCHANGED others
    \/ Ingest_Return(Caller) /\ UNCHANGED others
    \/ Render_Call(Caller) /\ UNCHANGED others
    \/ Render_Lock(Caller) /\ UNCHANGED others
    \/ Render_Return(Caller) /\ UNCHANGED others

SpecTypes == Init /\ [][NextTypes]_vars

(* One family merged with and without an unrecognised clearmode label *)

\* clearmode values that are none of "aggregate", "replace", "family"
UnrecognisedValues == {"bogus", "Replace", ""}

\* families of every type without a clearmode label: unlabelled, or
\* labelled a="x", a="y" or both
UnmarkedFamilies(name) ==
    UNION {UNION {{MetricFamily(name, t, <<>>, <<Sample(<<>>, v)>>),
                   MetricFamily(name, t, <<"a">>, <<Sample(<<"x">>, v)>>),
                   MetricFamily(name, t, <<"a">>, <<Sample(<<"y">>, v)>>),
                   MetricFamily(name, t, <<"a">>,
                                <<Sample(<<"x">>, v), Sample(<<"y">>, v)>>)} :
                  v \in TypedValues(t)} :
           t \in PrometheusTypes}

\* the families an Aggregator may hold before the merge: none, or foo as
\* AggregationFamily::new made it (the merged family then has foo's labels)
StoredBefore ==
    {EmptyMap} \cup {[n \in {"foo"} |-> AggregationFamily_new(f)] :
                       f \in UnmarkedFamilies("foo")}

InitBogus ==
    /\ InitAggregator
    /\ scenario \in {[type |-> "bogus", value |-> c] : c \in UnrecognisedValues}
    /\ pushed = NoPushes
    /\ arg1 \in StoredBefore
    /\ arg2 \in {f \in UnmarkedFamilies("foo") :
                   arg1 # EmptyMap => f.label_names = arg1["foo"].label_names}
    /\ out = NotApplied

\* the clear modes the samples of a family resolve to
ResolvedModes(family) ==
    {from_family(family.family_type, family.label_names, family.metrics[k]) :
        k \in 1..Len(family.metrics)}

\* the loop body of parse_and_merge applied to the family as it is, and to
\* the family with the clearmode label set to the unrecognised value
Apply_merge_one ==
    /\ ~out.done
    /\ LET marked == with_label(arg2, CLEARMODE_LABEL_NAME, scenario.value)
       IN out' = [done |-> TRUE,
                  plain |-> merge_one(arg1, "foo", arg2),
                  marked |-> merge_one(arg1, "foo", marked),
                  plain_modes |-> ResolvedModes(arg2),
                  marked_modes |-> ResolvedModes(marked)]
    /\ UNCHANGED <<families, writer, readers, pc, batch, todo, result, snapshot,
                   calls, pre, committed, partial, last, scenario, pushed,
                   arg1, arg2>>

NextBogus == Apply_merge_one

SpecBogus == InitBogus /\ [][NextBogus]_vars

(* merge_metric applied on its own to two Histogram values *)

OptionalNumbers == {None} \cup {Some(v) : v \in 1..MaxVal}

\* parsed histograms: sum, count and created each present or not
HistogramValues ==
    {[tag |-> "Histogram", sum |-> s, count |-> c, created |-> t,
      buckets |-> HistogramValue(b, [k \in 1..Len(b) |-> 1]).buckets] :
        s \in OptionalNumbers, c \in OptionalNumbers, t \in OptionalNumbers,
        b \in BoundLists}

\* the clear modes AggregationFamily::merge passes on
MergedModes == {"Aggregate", "Replace"}

InitValues ==
    /\ InitAggregator
    /\ scenario \in {[type |-> "merge_metric", clear_mode |-> m] : m \in MergedModes}
    /\ pushed = NoPushes
    /\ arg1 \in HistogramValues
    /\ arg2 \in HistogramValues
    /\ out = NotApplied

Apply_merge_metric ==
    /\ ~out.done
    /\ out' = [done |-> TRUE, r |-> merge_metric(arg1, arg2, scenario.clear_mode)]
    /\ UNCHANGED <<families, writer, readers, pc, batch, todo, result, snapshot,
                   calls, pre, committed, partial, last, scenario, pushed,
                   arg1, arg2>>

NextValues == Apply_merge_metric

SpecValues == InitValues /\ [][NextValues]_vars

(* Concurrent callers over one family, scheduled fairly *)

FooExpositions == ExpositionsOf({"foo"}, PlainFamilies)

NextFair ==
    \/ \E p \in Procs, e \in FooExpositions :
          Ingest_Call(p, e, <<>>) /\ UNCHANGED others
    \/ \E p \in Procs : Ingest_ParseError(p) /\ UNCHANGED others
    \/ \E p \in Procs : Ingest_Lock(p) /\ UNCHANGED others
    \/ \E p \in Procs : Ingest_Family(p, "foo") /\ UNCHANGED others
    \/ \E p \in Procs : Ingest_Return(p) /\ UNCHANGED others
    \/ \E p \in Procs : Render_Call(p) /\ UNCHANGED others
    \/ \E p \in Procs : Render_Lock(p) /\ UNCHANGED others
    \/ \E p \in Procs : Render_Return(p) /\ UNCHANGED others

\* a task that holds a guard runs on until it returns (nothing between the
\* lock and the return awaits); a task that waits for the lock gets it if the
\* lock is free again and again (the tokio RwLock queues its waiters fairly)
Fairness ==
    \A p \in Procs :
        /\ SF_vars(Ingest_Lock(p) /\ UNCHANGED others)
        /\ SF_vars(Render_Lock(p) /\ UNCHANGED others)
        /\ WF_vars(Ingest_Family(p, "foo") /\ UNCHANGED others)
        /\ WF_vars(Ingest_Return(p) /\ UNCHANGED others)
        /\ WF_vars(Render_Return(p) /\ UNCHANGED others)

SpecFair == Init /\ [][NextFair]_vars /\ Fairness

(* Properties *)

\* what one loop iteration over family n of a batch b makes of family n,
\* starting from the families fams
Applied(fams, b, n) == merge_one(fams, n, b[n]).families[n]

\* the families hold a batch of which only a part has been merged
Torn ==
    \/ partial
    \/ writer # NoProc /\ families # pre /\ todo[writer] # {}

\* C1 (as stated): a render that holds the read guard never reads families
\* in which some batch is merged only in part
C1_NeverPartialBatch ==
    \A p \in Procs : pc[p] = "r_hold" => ~Torn

\* C1 (amended): a render that holds the read guard reads the families as
\* the last returned parse_and_merge left them, with no call in progress; a
\* call that returned Ok has merged every family of its batch
C1_RenderSeesReturnedCalls ==
    /\ \A p \in Procs :
          pc[p] = "r_hold" => writer = NoProc /\ families = committed
    /\ last.res = "ok" =>
          \A n \in DOMAIN last.batch :
              /\ n \in DOMAIN last.after
              /\ last.after[n] = Applied(last.pre, last.batch, n)

\* a render holds the read guard right after a two-family batch was merged,
\* while another call waits for the write guard
C1_Witness ==
    \E p \in Procs, q \in Procs :
        /\ pc[p] = "r_hold"
        /\ pc[q] = "w_wait"
        /\ last.res = "ok"
        /\ Cardinality(DOMAIN last.batch) = 2
        /\ families # EmptyMap

\* C8: when a call fails on a type mismatch, the families iterated before
\* the failure hold their merged state and every other stored family is as
\* it was when the call took the lock
C8_FailedBatchKeepsMerged ==
    last.res = "err_type" =>
        /\ DOMAIN last.after = DOMAIN last.pre \cup last.merged
        /\ \A n \in last.merged :
              last.after[n] = Applied(last.pre, last.batch, n)
        /\ \A n \in DOMAIN last.after \ last.merged :
              last.after[n] = last.pre[n]

\* a call failed on a type mismatch after it had merged another family
C8_Witness ==
    /\ last.res = "err_type"
    /\ last.merged # {}
    /\ \E n \in last.merged : n \in DOMAIN last.pre /\ last.after[n] # last.pre[n]
    /\ families = last.after

\* C9 (as stated): when a family of a batch is rejected for its type, every
\* other family of the batch ends as if the rejected one had not been there
C9_OthersAsIfRejectedAbsent ==
    last.res = "err_type" =>
        \A n \in DOMAIN last.batch \ {last.name} :
            /\ n \in DOMAIN last.after
            /\ last.after[n] = Applied(last.pre, last.batch, n)

\* C2 (as stated): no stored family has a clearmode label
C2_ClearmodeNeverStored ==
    \A n \in DOMAIN families :
        LabelPosition(families[n].label_names, CLEARMODE_LABEL_NAME) = 0

\* a family with the clearmode label removed from its schema and from every
\* sample, and nothing else changed
Stripped(family) ==
    LET k == LabelPosition(family.label_names, CLEARMODE_LABEL_NAME)
    IN IF k = 0 THEN family
       ELSE [family EXCEPT
               !.label_names = RemoveAt(@, k),
               !.metrics = [m \in 1..Len(@) |->
                              [@[m] EXCEPT !.label_values = RemoveAt(@, k)]]]

\* a sample of the family carries clearmode="family"
CarriesFamilyClear(family) ==
    \E k \in 1..Len(family.metrics) :
        get_label_value(family.label_names, family.metrics[k],
                        CLEARMODE_LABEL_NAME) = Some("family")

\* C6 (as stated): after a batch with a clearmode="family" sample is merged
\* into a stored family, the stored samples are the batch's, clearmode stripped
C6_FamilyClearAdoptsStripped ==
    \A n \in last.merged :
        (n \in DOMAIN last.pre /\ CarriesFamilyClear(last.batch[n])) =>
            last.after[n] = Stripped(last.batch[n])

\* C10 (as stated): a family merge that returns an error leaves the stored
\* family as it was
C10_FailedMergeLeavesFamily ==
    last.res \in {"err_name", "err_type", "err_add"} =>
        last.after[last.name] = last.pre[last.name]

\* the count a bucket list holds at an upper bound, 0 when it has none
CountAt(buckets, b) ==
    IF \E k \in 1..Len(buckets) : buckets[k].upper_bound = b
    THEN LET k == CHOOSE k \in 1..Len(buckets) : buckets[k].upper_bound = b
         IN buckets[k].count
    ELSE 0

BoundsOf(buckets) == {buckets[k].upper_bound : k \in 1..Len(buckets)}

SortedByBound(buckets) ==
    \A k \in 1..(Len(buckets) - 1) :
        buckets[k].upper_bound < buckets[k+1].upper_bound

\* C3 (as stated): merge_buckets of two sorted lists returns, its result is
\* sorted, holds the bounds of both inputs and at each the sum of their counts
C3_MergeBucketsSumsByBound ==
    out.done =>
        /\ ~out.r.panic
        /\ SortedByBound(out.r.out)
        /\ BoundsOf(out.r.out) = BoundsOf(arg1) \cup BoundsOf(arg2)
        /\ \A b \in BoundsOf(arg1) \cup BoundsOf(arg2) :
              CountAt(out.r.out, b) = CountAt(arg1, b) + CountAt(arg2, b)

\* the label values of the scenario's sample as stored, URL labels included
TrackedLabelValues ==
    <<"x">> \o [k \in 1..Len(scenario.extra) |-> scenario.extra[k][2]]

\* the scenario's sample as the last render returned it
Rendered ==
    LET f == snapshot[Caller]["foo"]
    IN f.metrics[get_sample_matches(f, TrackedLabelValues)]

HasRendered ==
    /\ result[Caller] = "rendered"
    /\ "foo" \in DOMAIN snapshot[Caller]
    /\ get_sample_matches(snapshot[Caller]["foo"], TrackedLabelValues) # 0

\* C4: after pushes of one label set without clearmode, a render shows the
\* last pushed value for a Gauge and the sum of the pushed values for a Counter
C4_GaugeLastCounterSum ==
    (result[Caller] = "rendered" /\ pushed.n > 0
        /\ scenario.type \in {"Gauge", "Counter"}) =>
        /\ HasRendered
        /\ Rendered.value.num =
              IF scenario.type = "Gauge" THEN pushed.last.num ELSE pushed.total

\* a render after two or more pushes whose last value differs from their sum
C4_Witness ==
    /\ HasRendered
    /\ pushed.n >= 2
    /\ scenario.type = "Gauge"
    /\ pushed.last.num # pushed.total
    /\ Rendered.value.num = 2

\* C5: after pushes of one Histogram sample with the same bucket bounds and
\* no clearmode, a render shows the same bounds in the same order, each with
\* the sum of the counts pushed for it
C5_HistogramBucketsSum ==
    (result[Caller] = "rendered" /\ pushed.n > 0
        /\ scenario.type = "Histogram") =>
        /\ HasRendered
        /\ Len(Rendered.value.buckets) = Len(scenario.bounds)
        /\ \A k \in 1..Len(scenario.bounds) :
              /\ Rendered.value.buckets[k].upper_bound = scenario.bounds[k]
              /\ Rendered.value.buckets[k].count = pushed.total[k]

\* a render after two or more pushes of a two-bucket histogram
C5_Witness ==
    /\ HasRendered
    /\ scenario.type = "Histogram"
    /\ Len(scenario.bounds) = 2
    /\ pushed.n >= 2
    /\ Rendered.value.buckets[2].count > MaxCount

\* C7 (as stated): when a batch whose samples all resolve to Replace is
\* merged a second time right after a first merge that succeeded, the second
\* merge succeeds and leaves the families as the first left them
C7_ReplaceTwiceIsOnce ==
    (pushed.n = 2 /\ pc[Caller] = "idle" /\ pushed.first = "ok") =>
        /\ result[Caller] = "ok"
        /\ families = last.pre

\* C11 (as stated): no parse_and_merge call ends in the panic of a merge of
\* two Summary values or of two values of differing tags; such a merge ends
\* in an Err
C11_MergeNeverPanics ==
    \A p \in Procs : result[p] \notin {"panic_todo", "panic_tags"}

\* C12 (as stated): a sample with an unrecognised clearmode value resolves
\* to the mode of the same sample without the label (Replace for Gauge,
\* Aggregate for every other type), and its ingest ends as the ingest of the
\* sample without the label does, with the same stored families
C12_UnrecognisedIsAbsent ==
    out.done =>
        /\ out.marked_modes = out.plain_modes
        /\ out.plain_modes =
              {IF arg2.family_type = "Gauge" THEN "Replace" ELSE "Aggregate"}
        /\ out.marked.res = out.plain.res
        /\ out.marked.families = out.plain.families

\* the calls that hold the write guard, and those that hold a read guard
WriteHolders == {p \in Procs : pc[p] = "w_hold"}
ReadHolders == {p \in Procs : pc[p] = "r_hold"}

\* C13: at most one parse_and_merge holds the write guard, and while it does
\* no to_string holds a read guard and no other parse_and_merge holds the lock
C13_WriterExcludesAll ==
    /\ Cardinality(WriteHolders) <= 1
    /\ WriteHolders # {} => ReadHolders = {}
    /\ WriteHolders = (IF writer = NoProc THEN {} ELSE {writer})
    /\ ReadHolders = readers

\* two renders hold read guards at the same time
C13_Witness ==
    /\ Cardinality(ReadHolders) >= 2
    /\ writer = NoProc
    /\ families # EmptyMap

\* no two samples of the family have the same labels once clearmode is removed
DistinctStripped(family) ==
    LET metrics == Stripped(family).metrics
    IN \A i \in 1..Len(metrics), j \in 1..Len(metrics) :
           metrics[i].label_values = metrics[j].label_values => i = j

\* C14 (as stated): no stored family holds two samples whose
\* clearmode-stripped label sets are equal
C14_StrippedLabelSetsDistinct ==
    \A n \in DOMAIN families : DistinctStripped(families[n])

\* C15: no call ends in the unreachable!() of merge_metric on clear mode
\* Family, and a batch with a clearmode="family" sample replaces the stored
\* family as a whole instead of going through the per-sample loop
C15_FamilyModeNeverMerged ==
    /\ \A p \in Procs : result[p] # "panic_mode"
    /\ \A n \in last.merged :
          (n \in DOMAIN last.pre /\ CarriesFamilyClear(last.batch[n])) =>
              last.after[n] = AggregationFamily_new(last.batch[n])

\* a batch was merged into a stored family of which it matches a sample with
\* clearmode="replace" and another with clearmode="family"
C15_Witness ==
    /\ last.res = "ok"
    /\ "foo" \in DOMAIN last.pre
    /\ "foo" \in last.merged
    /\ LET b == last.batch["foo"]
       IN /\ Len(b.metrics) = 2
          /\ get_label_value(b.label_names, b.metrics[1], CLEARMODE_LABEL_NAME)
                = Some("replace")
          /\ get_label_value(b.label_names, b.metrics[2], CLEARMODE_LABEL_NAME)
                = Some("family")
          /\ \A k \in 1..2 :
                get_sample_matches(last.pre["foo"],
                                   Stripped(b).metrics[k].label_values) # 0
    /\ families = last.after

\* what C16 says of one optional field: stored a, incoming b
MergedOptional(a, b, clear_mode) ==
    IF a = None \/ b = None THEN None
    ELSE IF clear_mode = "Aggregate" THEN Some(a[1] + b[1])
    ELSE b

\* C16: the merge of two Histogram values has a sum (a count) only when both
\* values have one, their sum under Aggregate and the incoming one under
\* Replace, and has the created of the incoming value
C16_HistogramOptionalFields ==
    (out.done /\ ~out.r.panic) =>
        /\ out.r.val.tag = "Histogram"
        /\ out.r.val.sum = MergedOptional(arg1.sum, arg2.sum, scenario.clear_mode)
        /\ out.r.val.count =
              MergedOptional(arg1.count, arg2.count, scenario.clear_mode)
        /\ out.r.val.created = arg2.created

\* under Replace only the incoming value has a sum, both have a count, and
\* the stored value has a created while the incoming has none
C16_Witness ==
    /\ out.done
    /\ ~out.r.panic
    /\ scenario.clear_mode = "Replace"
    /\ arg1.sum = None /\ arg2.sum # None /\ out.r.val.sum = None
    /\ arg1.count # None /\ arg2.count # None /\ arg1.count # arg2.count
    /\ out.r.val.count = arg2.count
    /\ arg1.created # None /\ arg2.created = None /\ out.r.val.created = None

\* the label sets of the family's samples, clearmode left out: each a set of
\* <<name, value>> pairs
LabelSets(family) ==
    LET f == Stripped(family)
    IN {{<<f.label_names[k], f.metrics[m].label_values[k]>> :
            k \in 1..Len(f.label_names)} : m \in 1..Len(f.metrics)}

\* the step is the loop iteration of a batch with a clearmode="family" sample
\* over family n
FamilyClearStep(n) ==
    /\ writer # NoProc
    /\ n \in todo[writer]
    /\ CarriesFamilyClear(batch[writer][n])
    /\ families'[n] # families[n]

\* C17: no step removes a stored family name, and no step removes a label set
\* from a stored family unless it merges a batch with a clearmode="family"
\* sample into that family
C17_SamplesOnlyLostByFamilyClear ==
    [][\A n \in DOMAIN families :
          /\ n \in DOMAIN families'
          /\ \/ LabelSets(families[n]) \subseteq LabelSets(families'[n])
             \/ FamilyClearStep(n)]_vars

\* a batch without clearmode="family" was merged into a stored family: it
\* added a label set and the stored ones it does not mention are still there
C17_Witness ==
    /\ last.res = "ok"
    /\ "foo" \in DOMAIN last.pre
    /\ "foo" \in last.merged
    /\ ~CarriesFamilyClear(last.batch["foo"])
    /\ LabelSets(last.pre["foo"]) \ LabelSets(last.batch["foo"]) # {}
    /\ LabelSets(last.after["foo"]) \ LabelSets(last.pre["foo"]) # {}
    /\ LabelSets(last.pre["foo"]) \subseteq LabelSets(families["foo"])

\* the step is the loop iteration of the lock holder over family n
Iterates(n) ==
    /\ writer # NoProc
    /\ n \in todo[writer]
    /\ n \notin todo'[writer]
    /\ pc'[writer] = "w_hold" \/ last'.name = n

\* C18: a stored family keeps its name and its type in every step, every map
\* key is the name of its family, and the iteration over a batch family whose
\* type differs from the stored one fails and leaves the families as they were
C18_NameAndTypeFixed ==
    [][/\ \A n \in DOMAIN families :
             /\ n \in DOMAIN families'
             /\ families'[n].family_name = families[n].family_name
             /\ families'[n].family_type = families[n].family_type
       /\ \A n \in DOMAIN families' : families'[n].family_name = n
       /\ \A n \in DOMAIN families :
             (Iterates(n) /\
                batch[writer][n].family_type # families[n].family_type) =>
                 /\ result'[writer] = "err_type"
                 /\ families' = families]_vars

\* a batch of another type that carries clearmode="family" was rejected and
\* the stored family is as it was
C18_Witness ==
    /\ last.res = "err_type"
    /\ CarriesFamilyClear(last.batch[last.name])
    /\ last.batch[last.name].family_type # last.pre[last.name].family_type
    /\ families[last.name] = last.pre[last.name]
    /\ families[last.name].family_name = last.name

\* the lock is held by nobody
LockFree == writer = NoProc /\ readers = {}

\* C19: a call that has returned holds no guard, whether it returned Ok or
\* Err; every call that waits for the lock gets it and returns; and a held
\* lock becomes free again
C19_LockAlwaysReleased ==
    /\ [](\A p \in Procs : pc[p] = "idle" => writer # p /\ p \notin readers)
    /\ \A p \in Procs :
          /\ (pc[p] = "w_wait") ~> (pc[p] = "w_hold")
          /\ (pc[p] = "w_hold") ~> (pc[p] = "idle")
          /\ (pc[p] = "r_wait") ~> (pc[p] = "r_hold")
          /\ (pc[p] = "r_hold") ~> (pc[p] = "idle")
    /\ (~LockFree) ~> LockFree

\* a call has returned Err from inside the loop and another call holds the
\* write guard after it
C19_Witness ==
    \E p \in Procs, q \in Procs :
        /\ p # q
        /\ result[p] = "err_type"
        /\ pc[q] = "w_hold"
        /\ writer = q
        /\ last.res = "err_type"

====
